---- MODULE Spec2Model ----
(***************************************************************************)
(* Coffee procurement planner: the three MILP formulations                 *)
(*   solver.solve                 (baseline: one office, no tiers)         *)
(*   v2/solver_v2.solve           (distributors, offices, tiers, leads)    *)
(*   v2/solver_v2_correction.solve (the same with priced corrections)      *)
(* Each solve builds a model and hands it to the MIP engine, which returns *)
(* an optimal assignment of the decision variables or none.  The engine is *)
(* modelled by what it guarantees: the returned assignment satisfies every *)
(* constraint added to the model and no other satisfying assignment has a  *)
(* smaller objective; which of several optimal assignments comes back is   *)
(* not determined.                                                         *)
(*                                                                         *)
(* Quantities are whole kilograms.  The loss fraction alpha is the         *)
(* rational a / AlphaDen; inventories are carried multiplied by            *)
(* Scale(T) = AlphaDen^T, which keeps (1 - alpha) * I exact over T days.   *)
(***************************************************************************)
EXTENDS Integers, Sequences, FiniteSets, TLC

VARIABLES call, inp, pc, out, db, session

vars == <<call, inp, pc, out, db, session>>

(***************************************************************************)
(* Bounds of the explored inputs.                                          *)
(***************************************************************************)
AlphaDen == 2
MaxT == 2
MaxDemand == 2
MaxStock == 3

(***************************************************************************)
(* Arithmetic helpers.                                                     *)
(***************************************************************************)
RECURSIVE Pow(_, _)
Pow(b, e) == IF e = 0 THEN 1 ELSE b * Pow(b, e - 1)

RECURSIVE SumOver(_, _)
SumOver(S, f) ==
  IF S = {} THEN 0
  ELSE LET e == CHOOSE e \in S : TRUE IN f[e] + SumOver(S \ {e}, f)

Min(S) == CHOOSE m \in S : \A n \in S : m <= n

Max(S) == CHOOSE m \in S : \A n \in S : m >= n

\* dict.get(key, 0.0)
Get(dict, key) == IF key \in DOMAIN dict THEN dict[key] ELSE 0

\* a Python list as a function on 0..len-1
List(s) == [i \in 0..(Len(s) - 1) |-> s[i + 1]]

ListLen(l) == Cardinality(DOMAIN l)

Scale(T) == Pow(AlphaDen, T)

\* (1 - alpha) * v on scaled inventories
KeepMut(a, v) == v
Keep(a, v) == ((AlphaDen - a) * v) \div AlphaDen

(***************************************************************************)
(* solver.py: the baseline model.                                          *)
(***************************************************************************)
\* SolverInput.M default
BigM == 100000

\* I[t] == (1 - alpha) * prev + x[t] - D[t], prev = I0 on day 0
BalanceMut(in, prev, xt, t) == Keep(in.alpha, prev) + Scale(in.T) * xt
Balance(in, prev, xt, t) == Keep(in.alpha, prev) + Scale(in.T) * (xt - in.D[t])

\* I is a continuous_var_list with lb=0.0, and I_t <= V_max
CapacityMut(in, It) == It >= 0
Capacity(in, It) == It >= 0 /\ It <= Scale(in.T) * in.V_max

\* x_t <= M * y_t
LinkMut(in, xt, yt) == TRUE
Link(in, xt, yt) == xt <= in.M * yt

\* sum(P_t * x_t) + C * sum(y)
ObjectiveMut(in, x, y) == in.C * SumOver(DOMAIN y, y)
Objective(in, x, y) ==
  SumOver(DOMAIN x, [t \in DOMAIN x |-> in.P[t] * x[t]]) + in.C * SumOver(DOMAIN y, y)

\* the assignments of (x, I, y) on days 0..t-1 that satisfy the constraints of
\* those days; x[t] ranges up to V_max + D[t], beyond which I[t] > V_max
RECURSIVE BaselinePlans(_, _)
BaselinePlans(in, t) ==
  IF t = 0 THEN {[x |-> <<>>, I |-> <<>>, y |-> <<>>]}
  ELSE LET day == t - 1
           ext(p, xt, yt) ==
             [x |-> p.x @@ (day :> xt),
              I |-> p.I @@ (day :> Balance(in,
                       IF day = 0 THEN Scale(in.T) * in.I0 ELSE p.I[day - 1], xt, day)),
              y |-> p.y @@ (day :> yt)]
       IN  { q \in { ext(p, xt, yt) : p \in BaselinePlans(in, day),
                       xt \in 0..(in.V_max + in.D[day]), yt \in {0, 1} } :
               Capacity(in, q.I[day]) /\ Link(in, q.x[day], q.y[day]) }

\* m.solve() and what solve does with it: the SolverOutput of an optimal
\* assignment, or SolverFail when the model has none
BaselineResults(in) ==
  LET F == { [x |-> p.x, I |-> p.I, y |-> p.y,
              objective_value |-> Objective(in, p.x, p.y)] :
               p \in BaselinePlans(in, in.T) }
  IN  IF F = {} THEN {[pc |-> "SolverFail"]}
      ELSE LET best == Min({s.objective_value : s \in F})
           IN  {[pc |-> "returned", out |-> s] : s \in {s \in F : s.objective_value = best}}

BaselineInputs ==
  UNION { { [V_max |-> v, P |-> p, C |-> c, D |-> dm, I0 |-> i0, alpha |-> a,
             M |-> BigM, T |-> T] :
              v \in {MaxStock - 1}, p \in [0..(T - 1) -> 1..2], c \in {0, 3},
              dm \in [0..(T - 1) -> 0..MaxDemand], i0 \in {0, 1, MaxStock},
              a \in {0, 1, AlphaDen} } : T \in {1, MaxT} }

\* inputs whose P or D has not T entries
BaselineBadLength ==
  { [V_max |-> 2, P |-> List(p), C |-> 0, D |-> List(dm), I0 |-> 0, alpha |-> 0,
     M |-> BigM, T |-> 2] :
      p \in {<<1>>, <<1, 1>>}, dm \in {<<1>>, <<1, 1, 1>>} }

\* inputs whose alpha is not in [0, 1]: -1/AlphaDen and 1 + 1/AlphaDen
BaselineBadAlpha ==
  { [V_max |-> MaxStock, P |-> List(<<1, 2>>), C |-> c, D |-> List(dm), I0 |-> i0,
     alpha |-> a, M |-> BigM, T |-> 2] :
      c \in {0, 3}, dm \in {<<0, 1>>, <<1, 1>>, <<2, 0>>}, i0 \in {0, AlphaDen},
      a \in {0 - 1, AlphaDen + 1} }

\* solve(inp): the length check, then the model
Solve(in) ==
  IF ListLen(in.P) # in.T \/ ListLen(in.D) # in.T
  THEN {[pc |-> "ValueError"]}
  ELSE BaselineResults(in)

(***************************************************************************)
(* model/model.py: the legacy baseline model.  Its solve takes the lists   *)
(* and scalars as arguments, here the fields of one record.                *)
(***************************************************************************)
\* M = V_max
LegacyBigM(in) == in.V_max

\* model.solve(purchase_costs, daily_demands, V_max, C, I_0, alpha): the same
\* variables, objective and constraints as solver.solve over n = len(purchase_costs)
\* days, with M = V_max; the solution's dict, or None without solution
LegacySolve(in) ==
  IF ListLen(in.P) # ListLen(in.D) THEN {[pc |-> "ValueError"]}
  ELSE { IF r.pc = "returned"
         THEN [pc |-> "returned",
               out |-> [total_cost |-> r.out.objective_value,
                        orders |-> r.out.x,
                        inventory |-> r.out.I,
                        transport_days |-> {t + 1 : t \in {u \in DOMAIN r.out.y : r.out.y[u] = 1}},
                        purchase_cost |->
                          SumOver(DOMAIN r.out.x, [t \in DOMAIN r.out.x |-> in.P[t] * r.out.x[t]]),
                        transport_cost |-> in.C * SumOver(DOMAIN r.out.y, r.out.y)]]
         ELSE [pc |-> "returned None"] :
         r \in BaselineResults([in EXCEPT !.M = LegacyBigM(in), !.T = ListLen(in.P)]) }

\* inputs of the legacy solve: one or two days, demand up to and above V_max
LegacyInputs ==
  { [V_max |-> v, P |-> List(p), C |-> c, D |-> List(dm), I0 |-> i0, alpha |-> a,
     M |-> BigM, T |-> Len(p)] :
      v \in {1, MaxStock - 1}, p \in {<<1>>, <<1, 2>>, <<2, 1>>}, c \in {0, 3},
      dm \in {<<0>>, <<1>>, <<2>>, <<0, 1>>, <<1, 2>>, <<2, 2>>, <<MaxDemand, 0>>},
      i0 \in {0, 1}, a \in {0, 1} }

(***************************************************************************)
(* api_models.PredictionRequest2 and solver.generate_predictions: the      *)
(* legacy endpoint create_predictions_v2.                                  *)
(***************************************************************************)
\* estimate_demand: num_workers * 0.25 * 1.2 ** num_conferences, in kg; the
\* explored requests are those whose estimate is a whole number of kg
EstimateDemand(num_workers, num_conferences) ==
  (num_workers * Pow(12, num_conferences)) \div (4 * Pow(10, num_conferences))

\* the field types of PredictionRequest2 (PositiveInt, NonNegativeFloat,
\* NonNegativeInt) and its model_validator
FieldsValidMut(req) ==
  /\ req.storage_capacity_kg > 0
  /\ \A i \in DOMAIN req.purchase_costs_pln_per_kg_daily :
       req.purchase_costs_pln_per_kg_daily[i] >= 0
  /\ req.transport_cost_pln >= 0
  /\ \A i \in DOMAIN req.num_conferences_daily : req.num_conferences_daily[i] >= 0
  /\ \A i \in DOMAIN req.num_workers_daily : req.num_workers_daily[i] >= 0
  /\ req.initial_inventory_kg >= 0
  /\ req.planning_horizon_days > 0
FieldsValid(req) ==
  /\ req.storage_capacity_kg > 0
  /\ \A i \in DOMAIN req.purchase_costs_pln_per_kg_daily :
       req.purchase_costs_pln_per_kg_daily[i] >= 0
  /\ req.transport_cost_pln >= 0
  /\ \A i \in DOMAIN req.num_conferences_daily : req.num_conferences_daily[i] >= 0
  /\ \A i \in DOMAIN req.num_workers_daily : req.num_workers_daily[i] >= 0
  /\ req.initial_inventory_kg >= 0
  /\ req.daily_loss_fraction >= 0
  /\ req.planning_horizon_days > 0

check_lengths_match_planning_horizonMut(req) ==
  ListLen(req.purchase_costs_pln_per_kg_daily) = req.planning_horizon_days
check_lengths_match_planning_horizon(req) ==
  /\ ListLen(req.purchase_costs_pln_per_kg_daily) = req.planning_horizon_days
  /\ req.planning_horizon_days = ListLen(req.num_conferences_daily)
  /\ ListLen(req.num_conferences_daily) = ListLen(req.num_workers_daily)

\* round(v, 2) of a quantity carried as scale times its kg, in hundredths of a
\* kg, ties to the even hundredth
Round2(v, scale) ==
  LET q == (100 * v) \div scale
      r == (100 * v) % scale
  IN  IF 2 * r > scale THEN q + 1
      ELSE IF 2 * r < scale THEN q
      ELSE IF q % 2 = 0 THEN q ELSE q + 1

\* generate_predictions(prediction_request)
GeneratePredictionsOutcomes(req) ==
  LET T == req.planning_horizon_days
      demand_estimates == [t \in 0..(T - 1) |->
        EstimateDemand(req.num_workers_daily[t], req.num_conferences_daily[t])]
      solver_input == [V_max |-> req.storage_capacity_kg,
                       P |-> req.purchase_costs_pln_per_kg_daily,
                       C |-> req.transport_cost_pln,
                       D |-> demand_estimates,
                       I0 |-> req.initial_inventory_kg,
                       alpha |-> req.daily_loss_fraction,
                       M |-> BigM, T |-> T]
  IN  { IF r.pc # "returned" THEN r
        ELSE [pc |-> "returned",
              out |-> [t \in 0..(T - 1) |->
                [day |-> t + 1,
                 orderAmount |-> Round2(r.out.x[t], 1),
                 consumedAmount |-> Round2(demand_estimates[t], 1),
                 remainingAmount |-> Round2(r.out.I[t], Scale(T)),
                 unit |-> "kg"]]] :
        r \in Solve(solver_input) }

\* create_predictions_v2(request): the request body parsed as PredictionRequest2,
\* then generate_predictions
CreatePredictionsV2Outcomes(req) ==
  IF ~(FieldsValid(req) /\ check_lengths_match_planning_horizon(req))
  THEN {[pc |-> "ValidationError"]}
  ELSE GeneratePredictionsOutcomes(req)

PredictionRequest2(cap, costs, workers, conferences, i0, a) ==
  [storage_capacity_kg |-> cap,
   purchase_costs_pln_per_kg_daily |-> List(costs),
   transport_cost_pln |-> 3,
   num_conferences_daily |-> List(conferences),
   num_workers_daily |-> List(workers),
   initial_inventory_kg |-> i0,
   daily_loss_fraction |-> a,
   planning_horizon_days |-> 2]

\* request bodies: well-formed ones, ones whose loss fraction is outside [0, 1],
\* ones with an array of the wrong length, one with no storage
PredictionRequests ==
  { PredictionRequest2(MaxStock, <<1, 2>>, w, <<0, 0>>, i0, a) :
      w \in {<<0, 4>>, <<4, 4>>, <<8, 0>>, <<8, 8>>}, i0 \in {0, AlphaDen},
      a \in {0 - 1, 0, 1, AlphaDen, AlphaDen + 1} }
  \cup
  { PredictionRequest2(MaxStock, c, w, cf, 0, 0) :
      c \in {<<1>>, <<1, 2>>, <<1, 2, 1>>}, w \in {<<4>>, <<4, 4>>, <<4, 4, 4>>},
      cf \in {<<0>>, <<0, 0>>, <<0, 0, 0>>} }
  \cup
  { PredictionRequest2(0, <<1, 2>>, <<4, 4>>, <<0, 0>>, 0, 0) }


(***************************************************************************)
(* v2/solver_v2.py and v2/solver_v2_correction.py: the advanced model.     *)
(* kind is "v2" or "correction".  The two files build the same variables   *)
(* and constraints; the correction file adds r_plus / r_minus, their       *)
(* linkage, cap and cost, and reads x_hist with keys (d, b, tau).          *)
(***************************************************************************)
\* for tau in range(-100, 0)
HistWindow == 100

Ds(in) == 0..(in.D - 1)
Bs(in) == 0..(in.B - 1)
Ts(in) == 0..(in.T - 1)
Ls(in) == 1..in.L

\* the asserts that open solve
Validation(in) ==
  /\ ListLen(in.V_max) = in.B
  /\ ListLen(in.Q) = in.L + 1
  /\ ListLen(in.P_0) = in.D /\ \A d \in Ds(in) : ListLen(in.P_0[d]) = in.T
  /\ ListLen(in.P) = in.D /\ \A d \in Ds(in) : ListLen(in.P[d]) = in.T
  /\ \A d \in Ds(in), t \in Ts(in) : ListLen(in.P[d][t]) = in.L
  /\ ListLen(in.C_fix) = in.D /\ \A d \in Ds(in) : ListLen(in.C_fix[d]) = in.B
  /\ ListLen(in.Demand) = in.B /\ \A b \in Bs(in) : ListLen(in.Demand[b]) = in.T
  /\ ListLen(in.I_0) = in.B
  /\ ListLen(in.S) = in.D /\ \A d \in Ds(in) : ListLen(in.S[d]) = in.T
  /\ ListLen(in.X) = in.D /\ \A d \in Ds(in) : ListLen(in.X[d]) = in.B

\* S_max = max(inp.S[d][t] for d in range(D) for t in range(T))
S_max(in) == Max({in.S[d][t] : d \in Ds(in), t \in Ts(in)})

\* total kg of one order: x_0 plus every tier bucket
CellTotal(in, c) == c.x0 + SumOver(Ls(in), c.x)

\* x_0[d,b,t] <= S[d][t] * y_order[d,b,t]
OrderLinkMut(in, d, t, c) == TRUE
OrderLink(in, d, t, c) == c.x0 <= in.S[d][t] * c.yo

\* y_threshold[d,b,t,l] <= y_order[d,b,t]
ThresholdLinkMut(in, c) == TRUE
ThresholdLink(in, c) == \A l \in Ls(in) : c.yt[l] <= c.yo

\* bucket capacities: x_0 <= Q[1]; x[l] <= (Q[l+1]-Q[l]) * y[l]; x[L] <= S_max * y[L]
TierCapsMut(in, c) ==
  /\ c.x0 <= in.Q[1]
  /\ \A l \in 1..(in.L - 1) : c.x[l] <= (in.Q[l + 1] - in.Q[l])
  /\ c.x[in.L] <= S_max(in)
TierCaps(in, c) ==
  /\ c.x0 <= in.Q[1]
  /\ \A l \in 1..(in.L - 1) : c.x[l] <= (in.Q[l + 1] - in.Q[l]) * c.yt[l]
  /\ c.x[in.L] <= S_max(in) * c.yt[in.L]

\* activation: x_0 >= Q[1] * y[1]; x[l] >= (Q[l+1]-Q[l]) * y[l+1]
StaircaseMut(in, c) == c.x0 >= in.Q[1] * c.yt[1]
Staircase(in, c) ==
  /\ c.x0 >= in.Q[1] * c.yt[1]
  /\ \A l \in 1..(in.L - 1) : c.x[l] >= (in.Q[l + 1] - in.Q[l]) * c.yt[l + 1]

\* the assignments of one (d,b,t) that satisfy the per-order constraints
CellOpts(in, d, b, t) ==
  LET cap == in.S[d][t]
  IN  { c \in [x0 : 0..cap, x : [Ls(in) -> 0..cap], yo : {0, 1},
               yt : [Ls(in) -> {0, 1}]] :
          /\ OrderLink(in, d, t, c)
          /\ ThresholdLink(in, c)
          /\ TierCaps(in, c)
          /\ Staircase(in, c) }

\* x = x_kor + r_plus - r_minus for the tier-0 bucket and every tier bucket
LinkageMut(in, d, b, t, c) ==
  /\ c.x0 = Get(in.x_kor_0, <<d, b, t>>) + c.rp0 - c.rm0
  /\ \A l \in Ls(in) : c.x[l] = c.rp[l] - c.rm[l]
Linkage(in, d, b, t, c) ==
  /\ c.x0 = Get(in.x_kor_0, <<d, b, t>>) + c.rp0 - c.rm0
  /\ \A l \in Ls(in) : c.x[l] = Get(in.x_kor, <<d, b, t, l>>) + c.rp[l] - c.rm[l]

\* total_correction of one (d,b,t)
TotalCorrection(in, c) ==
  c.rp0 + c.rm0 + SumOver(Ls(in), [l \in Ls(in) |-> c.rp[l] + c.rm[l]])

\* total_correction <= R_max[d][b][t]
CorrectionCapMut(in, d, b, t, c) == c.rp0 + c.rm0 <= in.R_max[d][b][t]
CorrectionCap(in, d, b, t, c) == TotalCorrection(in, c) <= in.R_max[d][b][t]

\* the per-order assignments of the correction model
CorrCellOpts(in, d, b, t) ==
  LET r  == in.R_max[d][b][t]
      rs == { k \in [rp0 : 0..r, rm0 : 0..r, rp : [Ls(in) -> 0..r],
                     rm : [Ls(in) -> 0..r]] : CorrectionCap(in, d, b, t, k) }
  IN  { c \in { [x0 |-> o.x0, x |-> o.x, yo |-> o.yo, yt |-> o.yt,
                 rp0 |-> k.rp0, rm0 |-> k.rm0, rp |-> k.rp, rm |-> k.rm] :
                 o \in CellOpts(in, d, b, t), k \in rs } :
          Linkage(in, d, b, t, c) }

Opts(kind, in, d, b, t) ==
  IF kind = "v2" THEN CellOpts(in, d, b, t) ELSE CorrCellOpts(in, d, b, t)

\* total_ordered <= S[d][t], over every office and bucket
SupplyLimitMut(in, d, t, f) == \A b \in Bs(in) : CellTotal(in, f[<<d, b>>]) <= in.S[d][t]
SupplyLimit(in, d, t, f) ==
  SumOver(Bs(in), [b \in Bs(in) |-> CellTotal(in, f[<<d, b>>])]) <= in.S[d][t]

RECURSIVE Product(_, _)
Product(keys, opts) ==
  IF keys = {} THEN {<<>>}
  ELSE LET k == CHOOSE k \in keys : TRUE
       IN  { (k :> o) @@ r : o \in opts[k], r \in Product(keys \ {k}, opts) }

\* the assignments of day t's orders, of every (d,b)
DayOrders(kind, in, t) ==
  LET DB == Ds(in) \X Bs(in)
  IN  { f \in Product(DB, [pair \in DB |-> Opts(kind, in, pair[1], pair[2], t)]) :
          \A d \in Ds(in) : SupplyLimit(in, d, t, f) }

\* the day an order placed on tau with distributor d reaches office b
ArrivalDayMut(in, d, b, tau) == tau
ArrivalDay(in, d, b, tau) == tau + in.X[d][b]

\* deliveries arriving on day t: ordered on tau with tau + X[d][b] == t
DeliveriesTodayMut(in, cells, b, t) ==
  LET from == {dt \in Ds(in) \X Ts(in) : ArrivalDay(in, dt[1], b, dt[2]) = t}
  IN  SumOver(from, [dt \in from |-> cells[<<dt[1], b, dt[2]>>].x0])
DeliveriesToday(in, cells, b, t) ==
  LET from == {dt \in Ds(in) \X Ts(in) : ArrivalDay(in, dt[1], b, dt[2]) = t}
  IN  SumOver(from, [dt \in from |-> CellTotal(in, cells[<<dt[1], b, dt[2]>>])])

\* historical orders arriving on day t
HistDeliveriesToday(kind, in, b, t) ==
  LET from == {d \in Ds(in) : (t - in.X[d][b]) \in (0 - HistWindow)..(0 - 1)}
  IN  IF kind = "v2"
      THEN SumOver(from \X Ls(in),
             [dl \in from \X Ls(in) |->
                Get(in.x_hist, <<dl[1], b, t - in.X[dl[1]][b], dl[2]>>)])
      ELSE SumOver(from,
             [d \in from |-> Get(in.x_hist, <<d, b, t - in.X[d][b]>>)])

\* I[b,t] == (1 - alpha) * prev + deliveries + hist - Demand[b][t]
InventoryBalanceMut(kind, in, cells, prev, b, t) ==
  Keep(in.alpha, prev)
  + Scale(in.T) * (DeliveriesToday(in, cells, b, t) - in.Demand[b][t])
InventoryBalance(kind, in, cells, prev, b, t) ==
  Keep(in.alpha, prev)
  + Scale(in.T) * (DeliveriesToday(in, cells, b, t)
                   + HistDeliveriesToday(kind, in, b, t) - in.Demand[b][t])

\* I[b,t] is a continuous_var with lb=0, and I[b,t] <= V_max[b]
InventoryBoundsMut(in, I, t) == \A b \in Bs(in) : I[<<b, t>>] >= 0
InventoryBounds(in, I, t) ==
  \A b \in Bs(in) : I[<<b, t>>] >= 0 /\ I[<<b, t>>] <= Scale(in.T) * in.V_max[b]

\* a plan of days 0..t-1 extended by day t's orders
AddDay(kind, in, p, f, t) ==
  LET cells == p.cells @@ [k \in {<<pair[1], pair[2], t>> : pair \in DOMAIN f} |->
                             f[<<k[1], k[2]>>]]
      prev(b) == IF t = 0 THEN Scale(in.T) * in.I_0[b] ELSE p.I[<<b, t - 1>>]
  IN  [cells |-> cells,
       I |-> p.I @@ [k \in {<<b, t>> : b \in Bs(in)} |->
                       InventoryBalance(kind, in, cells, prev(k[1]), k[1], t)]]

\* the assignments of days 0..t-1 that satisfy every constraint on those days
RECURSIVE Plans(_, _, _)
Plans(kind, in, t) ==
  IF t = 0 THEN {[cells |-> <<>>, I |-> <<>>]}
  ELSE { q \in { AddDay(kind, in, p, f, t - 1) :
                   p \in Plans(kind, in, t - 1), f \in DayOrders(kind, in, t - 1) } :
           InventoryBounds(in, q.I, t - 1) }

\* purchase_cost + threshold_cost + fixed_cost
PurchaseCostMut(in, cells) ==
  SumOver(DOMAIN cells, [k \in DOMAIN cells |->
    LET c == cells[k]
        top == IF \E l \in Ls(in) : c.yt[l] = 1
               THEN in.P[k[1]][k[3]][Max({l \in Ls(in) : c.yt[l] = 1}) - 1]
               ELSE in.P_0[k[1]][k[3]]
    IN  top * CellTotal(in, c) + in.C_fix[k[1]][k[2]] * c.yo])
PurchaseCost(in, cells) ==
  SumOver(DOMAIN cells, [k \in DOMAIN cells |->
    LET c == cells[k]
    IN  in.P_0[k[1]][k[3]] * c.x0
        + SumOver(Ls(in), [l \in Ls(in) |-> in.P[k[1]][k[3]][l - 1] * c.x[l]])
        + in.C_fix[k[1]][k[2]] * c.yo])

\* correction_cost_0 + correction_cost_l
CorrectionCostMut(in, cells) ==
  SumOver(DOMAIN cells, [k \in DOMAIN cells |->
    in.K[k[1]][k[2]][k[3]] * (cells[k].rp0 + cells[k].rm0)])
CorrectionCost(in, cells) ==
  SumOver(DOMAIN cells, [k \in DOMAIN cells |->
    in.K[k[1]][k[2]][k[3]] * TotalCorrection(in, cells[k])])

\* the objective handed to m.minimize
ObjectiveV2(kind, in, cells) ==
  IF kind = "v2" THEN PurchaseCost(in, cells)
  ELSE PurchaseCost(in, cells) + CorrectionCost(in, cells)

Tiered(in, cells) == {<<k[1], k[2], k[3], l>> : k \in DOMAIN cells, l \in Ls(in)}

\* SolverOutputV2 / SolverOutputV2Correction built from the solution values
Output(kind, in, p) ==
  LET cells == p.cells
      K3 == DOMAIN cells
      K4 == Tiered(in, cells)
      base == [x_0 |-> [k \in K3 |-> cells[k].x0],
               x |-> [k \in K4 |-> cells[<<k[1], k[2], k[3]>>].x[k[4]]],
               I |-> p.I,
               y_order |-> [k \in K3 |-> cells[k].yo],
               y_threshold |-> [k \in K4 |-> cells[<<k[1], k[2], k[3]>>].yt[k[4]]],
               objective_value |-> ObjectiveV2(kind, in, cells)]
  IN  IF kind = "v2" THEN base
      ELSE base @@
           [r_plus_0 |-> [k \in K3 |-> cells[k].rp0],
            r_minus_0 |-> [k \in K3 |-> cells[k].rm0],
            r_plus |-> [k \in K4 |-> cells[<<k[1], k[2], k[3]>>].rp[k[4]]],
            r_minus |-> [k \in K4 |-> cells[<<k[1], k[2], k[3]>>].rm[k[4]]],
            correction_cost |-> CorrectionCost(in, cells)]

\* m.solve() and what solve does with it: the output of an optimal assignment,
\* or SolverFail when the model has none
Results(kind, in) ==
  LET F == {Output(kind, in, p) : p \in Plans(kind, in, in.T)}
  IN  IF F = {} THEN {[pc |-> "SolverFail"]}
      ELSE LET best == Min({s.objective_value : s \in F})
           IN  {[pc |-> "returned", out |-> s] : s \in {s \in F : s.objective_value = best}}

(***************************************************************************)
(* services/optimization.py: the projection of a baseline result.          *)
(***************************************************************************)
\* solver.SolverOutput is a TypedDict: solve returns a plain dict, which has
\* the keys x, I, y, objective_value and no attribute of those names
HasAttribute(result, name) == FALSE

\* OptimizationService._create_orders_from_result: one order per day with
\* is_order and order_amount > 0, read as result.x and result.y
CreateOrdersFromResult(purchase_costs_daily, transport_cost, result) ==
  IF ~(HasAttribute(result, "x") /\ HasAttribute(result, "y"))
  THEN [raised |-> "AttributeError", orders |-> {}]
  ELSE [raised |-> "none",
        orders |-> { [day_idx |-> t,
                      quantity_kg |-> result.x[t],
                      unit_price |-> purchase_costs_daily[t],
                      transport_cost |-> transport_cost,
                      total_cost |-> result.x[t] * purchase_costs_daily[t]
                                     + transport_cost] :
                       t \in {t \in DOMAIN result.x :
                                result.y[t] = 1 /\ result.x[t] > 0} }]

(***************************************************************************)
(* The explored inputs of the advanced solves.                             *)
(***************************************************************************)
\* threshold lists Q[0..L]; the last is not increasing, which nothing rejects
Thresholds == {List(<<0, 1>>), List(<<0, 1, 2>>), List(<<0, 1, 3>>), List(<<0, 2, 1>>)}

\* unit price of bucket k: falling (volume discount) or rising with the tier
Slopes == {0 - 1, 1}

BasePrice == 3

AdvancedInput(sh, q, slope, s, dm, v, i0, a, lead, cfix, hist) ==
  LET T == sh[1]
      D == sh[2]
      B == sh[3]
      L == ListLen(q) - 1
  IN  [T |-> T, D |-> D, B |-> B, L |-> L,
       V_max |-> [b \in 0..(B - 1) |-> v],
       Q |-> q,
       P_0 |-> [d \in 0..(D - 1) |-> [t \in 0..(T - 1) |-> BasePrice + d]],
       P |-> [d \in 0..(D - 1) |-> [t \in 0..(T - 1) |->
                [j \in 0..(L - 1) |-> BasePrice + d + slope * (j + 1)]]],
       C_fix |-> [d \in 0..(D - 1) |-> [b \in 0..(B - 1) |-> cfix]],
       Demand |-> [b \in 0..(B - 1) |-> [t \in 0..(T - 1) |-> dm[(t + b) % T]]],
       I_0 |-> [b \in 0..(B - 1) |-> i0],
       alpha |-> a,
       S |-> [d \in 0..(D - 1) |-> [t \in 0..(T - 1) |-> s]],
       X |-> [d \in 0..(D - 1) |-> [b \in 0..(B - 1) |-> lead[d]]],
       x_hist |-> hist]

\* x_hist of solver_v2: (d, b, tau, l) -> kg
HistV2 == {<<>>, <<0, 0, 0 - 1, 1>> :> 1, <<0, 0, 0 - 1, 0>> :> 1}

V2Inputs ==
  { AdvancedInput(<<2, 1, 1>>, q, slope, s, dm, MaxStock, i0, a, lead, 1, hist) :
      q \in Thresholds, slope \in Slopes, s \in {1, MaxStock},
      dm \in [0..1 -> 0..MaxDemand], i0 \in {0, MaxStock}, a \in 0..1,
      lead \in [0..0 -> 0..1], hist \in HistV2 }
  \cup
  { AdvancedInput(<<2, 2, 1>>, List(<<0, 1, 2>>), 0 - 1, MaxStock, dm, MaxStock, 0, a,
                  lead, 1, <<>>) :
      dm \in [0..1 -> 0..MaxDemand], a \in 0..1, lead \in {List(<<0, 1>>), List(<<1, 0>>)} }
  \cup
  { AdvancedInput(<<2, 1, 2>>, List(<<0, 1, 2>>), 0 - 1, MaxStock, dm, MaxStock, 0, a,
                  List(<<0>>), 1, <<>>) :
      dm \in [0..1 -> 0..MaxDemand], a \in 0..1 }

\* three days and a lead time of two: stock for day 0 only, demand on a later day
LeadTimeInputs ==
  { AdvancedInput(<<3, 1, 1>>, List(<<0, 1>>), 0 - 1, MaxStock, List(dm), MaxStock, 1, 0,
                  List(<<2>>), 1, hist) :
      dm \in {<<1, 0, 1>>, <<1, 0, 2>>, <<1, 1, 0>>, <<0, 0, 0>>},
      hist \in {<<>>, <<0, 0, 0 - 1, 1>> :> 1} }

\* alpha outside [0, 1]
V2BadAlpha ==
  { AdvancedInput(<<2, 1, 1>>, List(<<0, 1>>), 0 - 1, MaxStock, List(dm), MaxStock, i0, a,
                  List(<<0>>), 1, <<>>) :
      dm \in {<<0, 1>>, <<1, 1>>, <<2, 0>>}, i0 \in {0, 1}, a \in {0 - 1, AlphaDen + 1} }

\* L = 0: one price, no threshold
V2NoTiers ==
  { AdvancedInput(<<1, 1, 1>>, List(<<0>>), 1, 2, List(<<1>>), MaxStock, 0, 0,
                  List(<<0>>), 1, <<>>) }

\* the correction parameters added to an advanced input
WithCorrection(in, prior0, prior, k, rmax) ==
  in @@ [x_kor_0 |-> prior0, x_kor |-> prior,
         K |-> [d \in 0..(in.D - 1) |-> [b \in 0..(in.B - 1) |->
                  [t \in 0..(in.T - 1) |-> k]]],
         R_max |-> [d \in 0..(in.D - 1) |-> [b \in 0..(in.B - 1) |->
                      [t \in 0..(in.T - 1) |-> rmax]]]]

\* prior plans: (x_kor_0, x_kor); absent keys are orders of 0 kg
Priors ==
  { <<(<<>>), (<<>>)>>,
    <<(<<0, 0, 0>> :> 1), (<<>>)>>,
    <<(<<0, 0, 0>> :> 1), (<<0, 0, 0, 1>> :> 1)>> }

\* lead time of the one distributor with x_hist of the correction solve:
\* (d, b, tau) -> kg
LeadAndHist ==
  { <<0, (<<>>)>>, <<1, (<<>>)>>, <<1, (<<0, 0, 0 - 1>> :> 1)>> }

CorrectionInputs ==
  { WithCorrection(
      AdvancedInput(<<2, 1, 1>>, List(<<0, 1>>), 0 - 1, MaxStock, dm, MaxStock, 0, a,
                    List(<<lh[1]>>), 1, lh[2]),
      pr[1], pr[2], k, rmax) :
      dm \in [0..1 -> 0..MaxDemand], a \in 0..1, lh \in LeadAndHist, pr \in Priors,
      k \in {0, 2}, rmax \in 0..2 }
  \cup
  { WithCorrection(
      AdvancedInput(<<2, 1, 1>>, List(<<0, 1, 2>>), 0 - 1, MaxStock, dm, MaxStock, 0, 0,
                    List(<<0>>), 1, <<>>),
      pr[1], pr[2], k, rmax) :
      dm \in [0..1 -> 0..MaxDemand], pr \in Priors, k \in {0, 2}, rmax \in 1..2 }
  \cup
  { WithCorrection(
      AdvancedInput(<<2, 1, 2>>, List(<<0, 1>>), 0 - 1, MaxStock, dm, MaxStock, 0, a,
                    List(<<0>>), 1, <<>>),
      <<0, 0, 0>> :> 1, <<>>, 2, 1) :
      dm \in [0..1 -> 0..MaxDemand], a \in 0..1 }

CorrectionBadAlpha ==
  { WithCorrection(in, <<0, 0, 0>> :> 1, <<>>, 2, 1) : in \in V2BadAlpha }

\* the asserts solver_v2_correction.solve adds
ValidationCorrection(in) ==
  /\ ListLen(in.K) = in.D /\ \A d \in Ds(in) : ListLen(in.K[d]) = in.B
  /\ \A d \in Ds(in), b \in Bs(in) : ListLen(in.K[d][b]) = in.T
  /\ ListLen(in.R_max) = in.D /\ \A d \in Ds(in) : ListLen(in.R_max[d]) = in.B
  /\ \A d \in Ds(in), b \in Bs(in) : ListLen(in.R_max[d][b]) = in.T

NoOutput == <<>>

(***************************************************************************)
(* The database and the services on it.  db is what is committed, the rows *)
(* any other session reads; session is what the open AsyncSession reads:   *)
(* db with the changes it has flushed and not committed.  Quantities are   *)
(* whole kg and whole PLN; None is a missing value.                        *)
(***************************************************************************)
\* Python's None in a text or numeric attribute, and NULL in a foreign key
\* (primary keys start at 1; routers/orders.add_correction writes it 0)
None == "None"
NoRequest == 0

\* a database no service has been called on: solve and create_predictions_v2
\* use none
NoDatabase == <<>>

MaxQuantity == 3

\* String(50) of OptimizationRequest.solver_status
StatusLength == 50

OfficeRow(a) == [max_storage_capacity |-> MaxStock, daily_loss_rate |-> a]

\* an order as seed_database.seed_orders writes it: no optimization request
SeedOrder ==
  [optimization_request_id |-> NoRequest, office_id |-> 1, order_day |-> 0,
   delivery_day |-> 2, quantity_kg |-> 2, unit_price |-> 2, transport_cost |-> 3, total_cost |-> 7,
   status |-> "pending"]

\* rows of a stored plan: a request, its order and its inventory projections
PlanRequestRow ==
  [office_id |-> 1, planning_horizon_days |-> 2, initial_inventory |-> 0,
   total_cost |-> 4, solver_status |-> "OPTIMAL", is_correction_mode |-> FALSE]

PlanOrder ==
  [optimization_request_id |-> 1, office_id |-> 1, order_day |-> 0,
   delivery_day |-> 0, quantity_kg |-> 1, unit_price |-> 1, transport_cost |-> 3, total_cost |-> 4,
   status |-> "planned"]

PlanSnapshots ==
  { [optimization_request_id |-> 1, office_id |-> 1, day |-> t,
     inventory_level |-> 0, demand_fulfilled |-> 1 - t, loss_amount |-> 0,
     deliveries_received |-> 1 - t, is_projected |-> TRUE] : t \in 0..1 }

\* the databases a session is opened on: the seeded one, and one that also
\* holds a stored plan
Databases ==
  { [offices |-> 1 :> OfficeRow(a),
     requests |-> IF plan THEN 1 :> PlanRequestRow ELSE <<>>,
     orders |-> IF plan THEN (1 :> SeedOrder) @@ (2 :> PlanOrder) ELSE 1 :> SeedOrder,
     snapshots |-> IF plan THEN PlanSnapshots ELSE {},
     corrections |-> {}] :
      a \in 0..1, plan \in BOOLEAN }

\* the primary key the next INSERT into a table gets
NextId(table) == IF DOMAIN table = {} THEN 1 ELSE Max(DOMAIN table) + 1

\* str(e) of the SolverFail raised for a model without solution:
\* f"Solver failed to return a solution. Status: {status}"
SolverFailMessages ==
  { "Solver failed to return a solution. Status: " \o st :
      st \in {"JobSolveStatus.INFEASIBLE_SOLUTION",
              "JobSolveStatus.INFEASIBLE_OR_UNBOUNDED_SOLUTION"} }

\* flush of an optimization_requests row: solver_status is a VARCHAR(50)
FitsStatusColumnMut(status) == TRUE
FitsStatusColumn(status) == Len(status) <= StatusLength

\* OptimizationService._create_inventory_snapshots: one row per entry of
\* result.I; loss = prev_inventory * alpha, delivery = x[t] if y[t] else 0.
\* inventory_level and loss_amount are Scale(T) times the kilograms
CreateInventorySnapshots(request, office_id, result, demands, alpha) ==
  LET scale == Scale(request.planning_horizon_days)
      prev_inventory(t) ==
        IF t = 0 THEN scale * request.initial_inventory ELSE result.I[t - 1]
  IN  { [optimization_request_id |-> request.id, office_id |-> office_id, day |-> t,
         inventory_level |-> result.I[t],
         demand_fulfilled |-> demands[t],
         loss_amount |-> prev_inventory(t) - Keep(alpha, prev_inventory(t)),
         deliveries_received |-> IF result.y[t] # 0 THEN result.x[t] ELSE 0,
         is_projected |-> TRUE] : t \in DOMAIN result.I }

\* the rows _create_orders_from_result adds for the request
OrderRows(request_id, office_id, orders, table) ==
  LET days == {o.day_idx : o \in orders}
      nth(t) == Cardinality({u \in days : u < t})
      of(t) == CHOOSE o \in orders : o.day_idx = t
  IN  [id \in {NextId(table) + nth(t) : t \in days} |->
        LET t == CHOOSE t \in days : NextId(table) + nth(t) = id
        IN  [optimization_request_id |-> request_id, office_id |-> office_id,
             order_day |-> t, delivery_day |-> t, quantity_kg |-> of(t).quantity_kg,
             unit_price |-> of(t).unit_price, transport_cost |-> of(t).transport_cost,
             total_cost |-> of(t).total_cost, status |-> "planned"]]

\* the arguments of run_optimization
RunArguments ==
  { [office_id |-> o, planning_horizon_days |-> 2, initial_inventory |-> i0,
     purchase_costs_daily |-> List(c), transport_cost |-> 3,
     num_workers_daily |-> List(w), num_conferences_daily |-> List(cf),
     is_correction_mode |-> FALSE] :
      o \in {1, 2}, i0 \in {0, MaxStock + 2}, c \in {<<1, 2>>, <<1>>},
      w \in {<<0, 4>>, <<8, 4>>, <<4>>, <<4, 4, 4>>}, cf \in {<<0, 0>>, <<0, 0, 0>>} }

\* OptimizationService.run_optimization up to the call of solve: the office, the
\* demands (zip stops at the shorter list) and the solver input
SolverInputOf(a, office) ==
  LET n == Min({ListLen(a.num_workers_daily), ListLen(a.num_conferences_daily)})
  IN  [V_max |-> office.max_storage_capacity,
       P |-> a.purchase_costs_daily,
       C |-> a.transport_cost,
       D |-> [t \in 0..(n - 1) |->
                EstimateDemand(a.num_workers_daily[t], a.num_conferences_daily[t])],
       I0 |-> a.initial_inventory,
       alpha |-> office.daily_loss_rate,
       M |-> BigM,
       T |-> a.planning_horizon_days]

\* the OptimizationRequest object run_optimization builds
NewRequest(a) ==
  [office_id |-> a.office_id, planning_horizon_days |-> a.planning_horizon_days,
   initial_inventory |-> a.initial_inventory, total_cost |-> None,
   solver_status |-> None, is_correction_mode |-> a.is_correction_mode]

Init ==
  /\ call \in {"solver", "solver_v2", "solver_v2_correction", "create_predictions_v2",
               "model"}
  /\ inp \in CASE call = "solver" ->
                   BaselineInputs \cup BaselineBadLength \cup BaselineBadAlpha
            [] call = "create_predictions_v2" -> PredictionRequests
            [] call = "model" -> LegacyInputs
            [] call = "solver_v2" ->
                   V2Inputs \cup V2NoTiers \cup LeadTimeInputs \cup V2BadAlpha
            [] call = "solver_v2_correction" -> CorrectionInputs \cup CorrectionBadAlpha
  /\ pc = "ready"
  /\ out = NoOutput
  /\ db = NoDatabase
  /\ session = NoDatabase

Finish(r) ==
  /\ pc' = r.pc
  /\ out' = IF r.pc = "returned" THEN r.out ELSE NoOutput
  /\ UNCHANGED <<call, inp, db, session>>

\* solver.solve(inp)
BaselineSolve ==
  /\ pc = "ready"
  /\ call = "solver"
  /\ \E r \in Solve(inp) : Finish(r)

\* solver_v2.solve(inp)
V2Solve ==
  /\ pc = "ready"
  /\ call = "solver_v2"
  /\ \E r \in IF ~Validation(inp) THEN {[pc |-> "AssertionError"]}
              ELSE IF 1 \notin DOMAIN inp.Q THEN {[pc |-> "IndexError"]}
              ELSE Results("v2", inp) : Finish(r)

\* solver_v2_correction.solve(inp)
CorrectionSolve ==
  /\ pc = "ready"
  /\ call = "solver_v2_correction"
  /\ \E r \in IF ~(Validation(inp) /\ ValidationCorrection(inp))
              THEN {[pc |-> "AssertionError"]}
              ELSE IF 1 \notin DOMAIN inp.Q THEN {[pc |-> "IndexError"]}
              ELSE Results("correction", inp) : Finish(r)

\* routers/predictions.create_predictions_v2(request)
CreatePredictionsV2 ==
  /\ pc = "ready"
  /\ call = "create_predictions_v2"
  /\ \E r \in CreatePredictionsV2Outcomes(inp) : Finish(r)

\* model.model.solve(...)
LegacyModelSolve ==
  /\ pc = "ready"
  /\ call = "model"
  /\ \E r \in LegacySolve(inp) : Finish(r)

Next ==
  BaselineSolve \/ V2Solve \/ CorrectionSolve \/ CreatePredictionsV2 \/ LegacyModelSolve

Spec == Init /\ [][Next]_vars

(***************************************************************************)
(* Requests served on a database: every request gets a session of its own  *)
(* (database.get_session), the handler runs on it, and the session is      *)
(* closed when the request ends.                                           *)
(***************************************************************************)
\* the body of POST /optimization/requests
OptimizationRequestCreates ==
  { [office_id |-> 1, planning_horizon_days |-> 2, initial_inventory |-> i0,
     purchase_costs_daily |-> List(c), transport_cost |-> 3,
     num_workers_daily |-> List(w), num_conferences_daily |-> List(cf),
     is_correction_mode |-> FALSE] :
      i0 \in {0 - 1, 0}, c \in {<<1>>, <<1, 2>>, <<1, 2, 1>>},
      w \in {<<4>>, <<4, 4>>, <<4, 4, 4>>}, cf \in {<<0>>, <<0, 0>>, <<0, 0, 0>>} }

\* OptimizationRequestCreate: the Field constraints
FieldsValidCreate(data) ==
  /\ data.planning_horizon_days >= 1
  /\ data.planning_horizon_days <= 30
  /\ data.initial_inventory >= 0
  /\ data.transport_cost >= 0

\* OptimizationRequestCreate.check_array_lengths
check_array_lengthsMut(data) ==
  /\ ListLen(data.purchase_costs_daily) = data.planning_horizon_days
  /\ ListLen(data.num_workers_daily) = data.planning_horizon_days
check_array_lengths(data) ==
  /\ ListLen(data.purchase_costs_daily) = data.planning_horizon_days
  /\ ListLen(data.num_workers_daily) = data.planning_horizon_days
  /\ ListLen(data.num_conferences_daily) = data.planning_horizon_days

\* the arguments of the OrderService operations
OrderIds == 1..3
StatusArguments ==
  [order_id : OrderIds, status : {"confirmed", "delivered"}]
CancelArguments == [order_id : OrderIds]
CorrectionArguments ==
  [order_id : OrderIds, optimization_request_id : 0..1,
   quantity_increase : 0..1, quantity_decrease : 0..2, correction_cost : {0}]
CreateArguments ==
  [office_id : {1}, order_day : {0}, delivery_day : {0, 1},
   quantity_kg : 1..MaxQuantity, unit_price : {2},
   transport_cost : {3}, optimization_request_id : {NoRequest, 1}]

ArgumentsOf(c) ==
  CASE c = "run_optimization" -> RunArguments
    [] c = "create_optimization" -> OptimizationRequestCreates
    [] c = "create_predictions_v2" -> PredictionRequests
    [] c = "solver" -> BaselineBadLength \cup BaselineBadAlpha
    [] c = "update_status" -> StatusArguments
    [] c = "cancel" -> CancelArguments
    [] c = "create_correction" -> CorrectionArguments
    [] c = "create" -> CreateArguments

Calls ==
  {"run_optimization", "create_optimization", "create_predictions_v2", "solver",
   "update_status", "cancel", "create_correction", "create"}

ServiceInit ==
  /\ db \in Databases
  /\ session = db
  /\ call \in Calls
  /\ inp \in ArgumentsOf(call)
  /\ pc = "ready"
  /\ out = NoOutput

\* what a run of run_optimization leaves: how it ended, how the call of solve
\* ended, the OptimizationRequest object it built, what solve returned, the
\* session and the committed rows
Outcome(raised, solved, request, result, s, d) ==
  [pc |-> raised, out |-> [solve |-> solved, request |-> request, result |-> result],
   session |-> s, db |-> d]

\* run_optimization after a successful solve (lines 103-139): total_cost from
\* result.objective_value, the request flushed, the orders added and committed
\* (_create_orders_from_result), the snapshots added and committed (bulk_create);
\* a commit the database refuses raises DBAPIError
AfterSolve(a, request, result, s, d) ==
  IF ~HasAttribute(result, "objective_value")
  THEN {Outcome("AttributeError", "returned", request, result, s, d)}
  ELSE LET id == NextId(s.requests)
           saved == [request EXCEPT !.total_cost = result.objective_value]
           s1 == [s EXCEPT !.requests = @ @@ (id :> saved)]
           made == CreateOrdersFromResult(a.purchase_costs_daily, a.transport_cost, result)
           s2 == [s1 EXCEPT !.orders = @ @@ OrderRows(id, a.office_id, made.orders, @)]
           office == s.offices[a.office_id]
           s3 == [s2 EXCEPT !.snapshots =
                    @ \cup CreateInventorySnapshots(
                              [id |-> id,
                               planning_horizon_days |-> saved.planning_horizon_days,
                               initial_inventory |-> saved.initial_inventory],
                              a.office_id, result, SolverInputOf(a, office).D,
                              office.daily_loss_rate)]
       IN  IF made.raised # "none"
           THEN {Outcome(made.raised, "returned", saved, result, s1, d)}
           ELSE {Outcome("DBAPIError", "returned", saved, result, d, d),
                 Outcome("DBAPIError", "returned", saved, result, s2, s2),
                 Outcome("returned", "returned", saved, result, s3, s3)}

\* OptimizationService.run_optimization(**a) on session s over committed rows d
RunOptimizationOutcomes(a, s, d) ==
  IF a.office_id \notin DOMAIN s.offices
  THEN {Outcome("ValueError", "not called", NoOutput, NoOutput, s, d)}
  ELSE LET solver_input == SolverInputOf(a, s.offices[a.office_id])
           request == NewRequest(a)
       IN  UNION { IF r.pc = "ValueError"
                   THEN {Outcome("ValueError", "ValueError", request, NoOutput, s, d)}
                   ELSE IF r.pc = "SolverFail"
                   THEN { LET failed == [request EXCEPT !.solver_status = m]
                          IN  IF FitsStatusColumn(m)
                              THEN Outcome("returned", "SolverFail", failed, NoOutput,
                                     [s EXCEPT !.requests =
                                        @ @@ (NextId(@) :> failed)], d)
                              ELSE Outcome("DBAPIError", "SolverFail", failed,
                                     NoOutput, d, d) :
                          m \in SolverFailMessages }
                   ELSE AfterSolve(a, [request EXCEPT !.solver_status = "OPTIMAL"],
                                   r.out, s, d) :
                   r \in Solve(solver_input) }

Leave(r) ==
  /\ pc' = r.pc
  /\ out' = r.out
  /\ session' = r.session
  /\ db' = r.db
  /\ UNCHANGED <<call, inp>>

\* OptimizationService.run_optimization
RunOptimization ==
  /\ pc = "ready"
  /\ call = "run_optimization"
  /\ \E r \in RunOptimizationOutcomes(inp, session, db) : Leave(r)

\* routers/optimization.create_optimization(data): the body is validated, then
\* run_optimization is called with keyword arguments it does not have
\* (horizon_start, horizon_days, purchase_costs, num_workers, num_conferences,
\* is_correction)
CreateOptimization ==
  /\ pc = "ready"
  /\ call = "create_optimization"
  /\ pc' = IF ~(FieldsValidCreate(inp) /\ check_array_lengths(inp))
           THEN "ValidationError" ELSE "TypeError"
  /\ UNCHANGED <<call, inp, out, db, session>>

\* a flush of the session that the database refuses: the transaction is rolled
\* back and the session reads the committed rows again
Refused(error) ==
  /\ pc' = error
  /\ session' = db
  /\ UNCHANGED <<call, inp, out, db>>

Flushed(s) ==
  /\ pc' = "returned"
  /\ session' = s
  /\ UNCHANGED <<call, inp, out, db>>

NotFound ==
  /\ pc' = "returned"
  /\ UNCHANGED <<call, inp, out, db, session>>

\* OrderService.update_status(order_id, status)
SetStatus(order_id, status) ==
  IF order_id \notin DOMAIN session.orders THEN NotFound
  ELSE Flushed([session EXCEPT !.orders[order_id].status = status])

UpdateStatus ==
  /\ pc = "ready"
  /\ call = "update_status"
  /\ SetStatus(inp.order_id, inp.status)

\* OrderService.cancel(order_id)
Cancel ==
  /\ pc = "ready"
  /\ call = "cancel"
  /\ SetStatus(inp.order_id, "cancelled")

\* OrderService.create_correction: the order's quantity and total cost are
\* rewritten and flushed, then the correction is inserted; its
\* optimization_request_id is a NOT NULL foreign key
CreateCorrection ==
  /\ pc = "ready"
  /\ call = "create_correction"
  /\ IF inp.order_id \notin DOMAIN session.orders THEN NotFound
     ELSE LET order == session.orders[inp.order_id]
              new_quantity == order.quantity_kg + inp.quantity_increase
                                - inp.quantity_decrease
              updated == [order EXCEPT
                            !.quantity_kg = new_quantity,
                            !.total_cost = new_quantity * order.unit_price
                                             + order.transport_cost]
              correction == [original_order_id |-> inp.order_id,
                             optimization_request_id |-> inp.optimization_request_id,
                             quantity_increase |-> inp.quantity_increase,
                             quantity_decrease |-> inp.quantity_decrease,
                             correction_cost |-> inp.correction_cost]
          IN  IF inp.optimization_request_id \notin DOMAIN session.requests
              THEN Refused("IntegrityError")
              ELSE Flushed([session EXCEPT
                              !.orders[inp.order_id] = updated,
                              !.corrections = @ \cup {correction}])

\* OrderService.create: optimization_request_id is a nullable foreign key
OrderCreate ==
  /\ pc = "ready"
  /\ call = "create"
  /\ LET order == [optimization_request_id |-> inp.optimization_request_id,
                   office_id |-> inp.office_id, order_day |-> inp.order_day,
                   delivery_day |-> inp.delivery_day,
                   quantity_kg |-> inp.quantity_kg, unit_price |-> inp.unit_price,
                   transport_cost |-> inp.transport_cost,
                   total_cost |-> inp.quantity_kg * inp.unit_price + inp.transport_cost,
                   status |-> "planned"]
     IN  IF /\ inp.optimization_request_id # NoRequest
            /\ inp.optimization_request_id \notin DOMAIN session.requests
         THEN Refused("IntegrityError")
         ELSE Flushed([session EXCEPT !.orders = @ @@ (NextId(@) :> order)])

\* get_session: the session is closed when the request ends, which rolls back
\* what it has not committed; the next request arrives
Close ==
  /\ pc # "ready"
  /\ session' = db
  /\ pc' = "ready"
  /\ out' = NoOutput
  /\ call' \in Calls
  /\ inp' \in ArgumentsOf(call')
  /\ UNCHANGED db

ServiceNext ==
  \/ RunOptimization
  \/ CreateOptimization
  \/ CreatePredictionsV2
  \/ BaselineSolve
  \/ UpdateStatus
  \/ Cancel
  \/ CreateCorrection
  \/ OrderCreate
  \/ Close

ServiceSpec == ServiceInit /\ [][ServiceNext]_vars

(***************************************************************************)
(* Properties.  A returned solution is read from out; inventories in out   *)
(* are Scale(T) times the kilograms, and alpha is inp.alpha / AlphaDen.    *)
(***************************************************************************)
ReturnedBy(c) == pc = "returned" /\ call = c

ReturnedAdvanced == pc = "returned" /\ call \in {"solver_v2", "solver_v2_correction"}

Orders == DOMAIN out.x_0

\* X[d,b,t] = x_0 + sum over l of x_l, of the returned solution
Total(k) ==
  out.x_0[k] + SumOver(Ls(inp), [l \in Ls(inp) |-> out.x[<<k[1], k[2], k[3], l>>]])

\* kg ordered inside the horizon that reach office b on day t
OrderedArrivals(b, t) ==
  LET from == {k \in Orders : k[2] = b /\ k[3] + inp.X[k[1]][b] = t}
  IN  SumOver(from, [k \in from |-> Total(k)])

\* kg of x_hist, of any tier and any placement day tau < 0, that reach b on t
HistoricalArrivals(b, t) ==
  LET from == {k \in DOMAIN inp.x_hist :
                 k[2] = b /\ k[3] < 0 /\ k[3] + inp.X[k[1]][b] = t}
  IN  SumOver(from, [k \in from |-> inp.x_hist[k]])

StrictlyIncreasing(q) ==
  q[0] = 0 /\ \A l \in DOMAIN q : l > 0 => q[l - 1] < q[l]

\* C1: in every returned solution of the three solves, for every office b and
\* day t, I[b,t] = (1 - alpha) * prev + arrivals[b,t] - Demand[b,t], prev being
\* I_0[b] on day 0 and I[b,t-1] after, and arrivals[b,t] every kg of every
\* distributor and tier bucket ordered on tau with tau + X[d][b] = t plus the
\* historical kg arriving that day.
C1_InventoryIdentity ==
  /\ ReturnedBy("solver") =>
       \A t \in 0..(inp.T - 1) :
         AlphaDen * out.I[t] =
           (AlphaDen - inp.alpha)
             * (IF t = 0 THEN Scale(inp.T) * inp.I0 ELSE out.I[t - 1])
           + AlphaDen * Scale(inp.T) * (out.x[t] - inp.D[t])
  /\ ReturnedAdvanced =>
       \A b \in Bs(inp), t \in Ts(inp) :
         AlphaDen * out.I[<<b, t>>] =
           (AlphaDen - inp.alpha)
             * (IF t = 0 THEN Scale(inp.T) * inp.I_0[b] ELSE out.I[<<b, t - 1>>])
           + AlphaDen * Scale(inp.T)
             * (OrderedArrivals(b, t) + HistoricalArrivals(b, t) - inp.Demand[b][t])

\* C2: staircase filling: in every returned advanced solution, for every
\* (d,b,t), y_threshold[1] = 1 implies x_0 = Q[1], and for l in 1..L-1,
\* y_threshold[l+1] = 1 implies x[l] = Q[l+1] - Q[l].
C2_StaircaseFilling ==
  ReturnedAdvanced =>
    \A k \in Orders :
      /\ out.y_threshold[<<k[1], k[2], k[3], 1>>] = 1 => out.x_0[k] = inp.Q[1]
      /\ \A l \in 1..(inp.L - 1) :
           out.y_threshold[<<k[1], k[2], k[3], l + 1>>] = 1
             => out.x[<<k[1], k[2], k[3], l>>] = inp.Q[l + 1] - inp.Q[l]

\* C3: with Q strictly increasing, in every returned advanced solution and for
\* every (d,b,t) and tier l in 1..L: y_threshold[l] = 1 implies X >= Q[l],
\* X > Q[l] implies y_threshold[l] = 1, and the active tiers are a prefix 1..k.
C3_TiersAgreeWithQuantity ==
  (ReturnedAdvanced /\ StrictlyIncreasing(inp.Q)) =>
    \A k \in Orders : \A l \in Ls(inp) :
      LET y(j) == out.y_threshold[<<k[1], k[2], k[3], j>>]
      IN  /\ y(l) = 1 => Total(k) >= inp.Q[l]
          /\ Total(k) > inp.Q[l] => y(l) = 1
          /\ (y(l) = 1 /\ l > 1) => y(l - 1) = 1

\* an order strictly between the first and the second threshold, with tier 1
\* active and tier 2 not
C3_Witness ==
  /\ ReturnedAdvanced /\ StrictlyIncreasing(inp.Q) /\ inp.L = 2
  /\ \E k \in Orders :
       /\ Total(k) > inp.Q[1] /\ Total(k) < inp.Q[2]
       /\ out.y_threshold[<<k[1], k[2], k[3], 1>>] = 1
       /\ out.y_threshold[<<k[1], k[2], k[3], 2>>] = 0

\* unit price of the largest tier an order reached, P_0 when it reached none
TierPrice(k) ==
  LET reached == {l \in Ls(inp) : out.y_threshold[<<k[1], k[2], k[3], l>>] = 1}
  IN  IF reached = {} THEN inp.P_0[k[1]][k[3]]
      ELSE inp.P[k[1]][k[3]][Max(reached) - 1]

\* C4: the objective of an Optimal plan equals the sum, over the emitted order
\* intents, of qty * unit_price + transport, the unit price being the single
\* price of the largest tier the order reached and transport C_fix: for the
\* advanced objective, and for the baseline plan as projected by
\* _create_orders_from_result.
C4_ObjectiveIsIntentTotal ==
  /\ ReturnedBy("solver_v2") =>
       LET intents == {k \in Orders : Total(k) > 0}
       IN  out.objective_value =
             SumOver(intents, [k \in intents |->
               Total(k) * TierPrice(k) + inp.C_fix[k[1]][k[2]]])
  /\ ReturnedBy("solver") =>
       LET orders == CreateOrdersFromResult(inp.P, inp.C, out).orders
       IN  out.objective_value = SumOver(orders, [o \in orders |-> o.total_cost])

\* C5: in every returned solution, a (d,b,t) with any kg ordered has
\* y_order = 1; in the baseline x[t] > 0 implies y[t] = 1.
C5_OrderedImpliesOrderFlag ==
  /\ ReturnedAdvanced => \A k \in Orders : Total(k) > 0 => out.y_order[k] = 1
  /\ ReturnedBy("solver") => \A t \in 0..(inp.T - 1) : out.x[t] > 0 => out.y[t] = 1

\* an advanced order with kg below the first threshold and in a tier bucket
C5_Witness ==
  /\ ReturnedAdvanced
  /\ \E k \in Orders :
       /\ out.x_0[k] > 0
       /\ \E l \in Ls(inp) : out.x[<<k[1], k[2], k[3], l>>] > 0
       /\ out.y_order[k] = 1

\* no delivery can reach office b on day 0 and its stock after the loss is
\* less than the demand of day 0
UnmetOnDayZero(b) ==
  /\ \A d \in Ds(inp) : inp.X[d][b] > 0
  /\ DOMAIN inp.x_hist = {}
  /\ (AlphaDen - inp.alpha) * inp.I_0[b] < AlphaDen * inp.Demand[b][0]

\* C6: in every returned solution 0 <= I[b,t] <= V_max[b] on every day, and a
\* solve whose demand cannot be met ends in SolverFail, not in a plan.
C6_InventoryWithinCapacity ==
  /\ ReturnedBy("solver") =>
       \A t \in 0..(inp.T - 1) :
         out.I[t] >= 0 /\ out.I[t] <= Scale(inp.T) * inp.V_max
  /\ ReturnedAdvanced =>
       \A b \in Bs(inp), t \in Ts(inp) :
         out.I[<<b, t>>] >= 0 /\ out.I[<<b, t>>] <= Scale(inp.T) * inp.V_max[b]
  /\ (/\ call \in {"solver_v2", "solver_v2_correction"}
      /\ pc \in {"returned", "SolverFail"}
      /\ \E b \in Bs(inp) : UnmetOnDayZero(b)) => pc = "SolverFail"
  /\ (/\ call = "solver"
      /\ pc \in {"returned", "SolverFail"}
      /\ (AlphaDen - inp.alpha) * inp.I0 - AlphaDen * inp.D[0]
           > AlphaDen * inp.V_max) => pc = "SolverFail"

\* a baseline plan that fills the store to V_max on one day and empties it on
\* another
C6_Witness ==
  /\ ReturnedBy("solver")
  /\ \E t \in 0..(inp.T - 1) : out.I[t] = Scale(inp.T) * inp.V_max
  /\ \E t \in 0..(inp.T - 1) : out.I[t] = 0

\* C7: in every returned advanced solution, for every distributor d and day t,
\* the kg ordered from d on t over all offices and all buckets is at most
\* S[d][t].
C7_SupplyCap ==
  ReturnedAdvanced =>
    \A d \in Ds(inp), t \in Ts(inp) :
      SumOver(Bs(inp), [b \in Bs(inp) |-> Total(<<d, b, t>>)]) <= inp.S[d][t]

\* two offices order from one distributor on one day and use up its supply
C7_Witness ==
  /\ ReturnedAdvanced /\ inp.B = 2
  /\ \E d \in Ds(inp), t \in Ts(inp) :
       /\ \A b \in Bs(inp) : Total(<<d, b, t>>) > 0
       /\ SumOver(Bs(inp), [b \in Bs(inp) |-> Total(<<d, b, t>>)]) = inp.S[d][t]

\* C8: in every solution of the correction solve, for every (d,b,t) and bucket
\* k in 0..L, x^k = x_kor^k + r_plus^k - r_minus^k with x, r_plus, r_minus >= 0,
\* a prior quantity absent from x_kor_0 / x_kor being 0.
C8_CorrectionLinkage ==
  ReturnedBy("solver_v2_correction") =>
    \A k \in Orders :
      /\ out.x_0[k] = Get(inp.x_kor_0, k) + out.r_plus_0[k] - out.r_minus_0[k]
      /\ out.x_0[k] >= 0 /\ out.r_plus_0[k] >= 0 /\ out.r_minus_0[k] >= 0
      /\ \A l \in Ls(inp) :
           LET kl == <<k[1], k[2], k[3], l>>
           IN  /\ out.x[kl] = Get(inp.x_kor, kl) + out.r_plus[kl] - out.r_minus[kl]
               /\ out.x[kl] >= 0 /\ out.r_plus[kl] >= 0 /\ out.r_minus[kl] >= 0

\* a prior tier-bucket quantity is decreased to nothing while a bucket without
\* prior quantity is increased
C8_Witness ==
  /\ ReturnedBy("solver_v2_correction")
  /\ \E kl \in DOMAIN inp.x_kor : out.r_minus[kl] = inp.x_kor[kl] /\ out.x[kl] = 0
  /\ \E k \in Orders : k \notin DOMAIN inp.x_kor_0 /\ out.r_plus_0[k] > 0

\* sum over the buckets 0..L of r_plus + r_minus, of the returned solution
Corrected(k) ==
  out.r_plus_0[k] + out.r_minus_0[k]
  + SumOver(Ls(inp), [l \in Ls(inp) |->
      out.r_plus[<<k[1], k[2], k[3], l>>] + out.r_minus[<<k[1], k[2], k[3], l>>]])

\* total kg of the prior order
PriorTotal(k) ==
  Get(inp.x_kor_0, k)
  + SumOver(Ls(inp), [l \in Ls(inp) |-> Get(inp.x_kor, <<k[1], k[2], k[3], l>>)])

\* C9: in every solution of the correction solve, for every (d,b,t) the sum over
\* the buckets 0..L of r_plus + r_minus is at most R_max[d][b][t], so the final
\* total differs from the prior total by at most R_max[d][b][t].
C9_CorrectionCap ==
  ReturnedBy("solver_v2_correction") =>
    \A k \in Orders :
      /\ Corrected(k) <= inp.R_max[k[1]][k[2]][k[3]]
      /\ Total(k) - PriorTotal(k) <= inp.R_max[k[1]][k[2]][k[3]]
      /\ PriorTotal(k) - Total(k) <= inp.R_max[k[1]][k[2]][k[3]]

\* an order corrected in a tier bucket by its whole allowance
C9_Witness ==
  /\ ReturnedBy("solver_v2_correction")
  /\ \E k \in Orders :
       /\ Corrected(k) = inp.R_max[k[1]][k[2]][k[3]]
       /\ \E l \in Ls(inp) : out.r_plus[<<k[1], k[2], k[3], l>>] > 0

\* C10: in correction mode the objective is the purchase cost of the final
\* bucket quantities, plus C_fix per placed order, plus K[d][b][t] times the sum
\* over the buckets 0..L of r_plus + r_minus, and the reported correction_cost
\* is that last term: raising a prior order by n kg at K per kg adds n * K.
C10_CorrectionObjective ==
  ReturnedBy("solver_v2_correction") =>
    LET purchase ==
          SumOver(Orders, [k \in Orders |->
            inp.P_0[k[1]][k[3]] * out.x_0[k]
            + SumOver(Ls(inp), [l \in Ls(inp) |->
                inp.P[k[1]][k[3]][l - 1] * out.x[<<k[1], k[2], k[3], l>>]])])
        placed == {k \in Orders : out.y_order[k] = 1}
        fixed == SumOver(placed, [k \in placed |-> inp.C_fix[k[1]][k[2]]])
        correction ==
          SumOver(Orders, [k \in Orders |-> inp.K[k[1]][k[2]][k[3]] * Corrected(k)])
    IN  /\ out.correction_cost = correction
        /\ out.objective_value = purchase + fixed + correction

\* a prior order raised by 1 kg in a tier bucket at K = 2 per kg, and nothing
\* else corrected: the correction cost is 2
C10_Witness ==
  /\ ReturnedBy("solver_v2_correction")
  /\ \E k \in DOMAIN inp.x_kor_0 :
       /\ inp.K[k[1]][k[2]][k[3]] = 2
       /\ \E l \in Ls(inp) : out.r_plus[<<k[1], k[2], k[3], l>>] = 1
       /\ Total(k) = PriorTotal(k) + 1
       /\ out.correction_cost = 2

\* kg of history the returned inventories show arriving at office b on day t:
\* what the balance of day t holds beyond the kept stock, the ordered arrivals
\* and the demand, times AlphaDen * Scale(T)
CountedHistory(b, t) ==
  AlphaDen * out.I[<<b, t>>]
  - (AlphaDen - inp.alpha)
      * (IF t = 0 THEN Scale(inp.T) * inp.I_0[b] ELSE out.I[<<b, t - 1>>])
  - AlphaDen * Scale(inp.T) * (OrderedArrivals(b, t) - inp.Demand[b][t])

\* C14: every historical amount of x_hist placed on a day tau < 0 with
\* tau + X[d][b] = t, 0 <= t < T, is added to the arrivals of office b on day t,
\* whatever tier bucket (tier 0 included) it was ordered in, by the advanced
\* solve and by the correction solve alike.
C14_HistoricalArrivalsCounted ==
  ReturnedAdvanced =>
    \A b \in Bs(inp), t \in Ts(inp) :
      CountedHistory(b, t) = AlphaDen * Scale(inp.T) * HistoricalArrivals(b, t)

\* C16: solver_v2.solve and solver_v2_correction.solve given thresholds that
\* are not 0 = Q[0] < Q[1] < ... < Q[L] fail with an input error and return no
\* solution.
C16_RejectsNonIncreasingQ ==
  (/\ call \in {"solver_v2", "solver_v2_correction"}
   /\ pc # "ready"
   /\ ~StrictlyIncreasing(inp.Q)) => pc \in {"AssertionError", "ValueError"}

\* the baseline input an advanced input with one distributor, one office and no
\* tier stands for
Restriction(in) ==
  [V_max |-> in.V_max[0], P |-> in.P_0[0], C |-> in.C_fix[0][0], D |-> in.Demand[0],
   I0 |-> in.I_0[0], alpha |-> in.alpha, M |-> BigM, T |-> in.T]

IsRestriction(in) ==
  /\ in.D = 1 /\ in.B = 1 /\ in.L = 0
  /\ in.X[0][0] = 0 /\ DOMAIN in.x_hist = {}

\* C20: the advanced solve run with one distributor, one office, L = 0, lead
\* time 0 and no history ends as the baseline solve of the same data does: with
\* a plan (x_0 as x, I, y_order as y) that is among the baseline's optimal plans
\* and has the baseline's objective, or with SolverFail when the baseline fails.
C20_BaselineIsRestriction ==
  (call = "solver_v2" /\ pc # "ready" /\ IsRestriction(inp)) =>
    \E r \in BaselineResults(Restriction(inp)) :
      /\ pc = r.pc
      /\ pc = "returned" =>
           /\ out.objective_value = r.out.objective_value
           /\ \A t \in Ts(inp) :
                /\ out.x_0[<<0, 0, t>>] = r.out.x[t]
                /\ out.I[<<0, t>>] = r.out.I[t]
                /\ out.y_order[<<0, 0, t>>] = r.out.y[t]

\* office b has no stock left for the demand of day 0 and nothing can reach it
\* that day: every lead time to b is positive and no history arrives on day 0
UnmetBeforeLeadTime(b) ==
  /\ \A d \in Ds(inp) : inp.X[d][b] > 0
  /\ HistoricalArrivals(b, 0) = 0
  /\ (AlphaDen - inp.alpha) * inp.I_0[b] < AlphaDen * inp.Demand[b][0]

\* C15: a quantity ordered on day tau from distributor d for office b enters the
\* balance of office b on day tau + X[d][b] and on no other day, and none inside
\* the horizon when tau + X[d][b] >= T: beyond the kept stock and the demand,
\* the balance of day t holds the orders with tau + X[d][b] = t and at most the
\* history arriving that day.  Demand on a day before every lead time to b is
\* met from initial stock and history only: without them the solve fails.
C15_LeadTimesHonoured ==
  /\ ReturnedAdvanced =>
       \A b \in Bs(inp), t \in Ts(inp) :
         /\ CountedHistory(b, t) >= 0
         /\ CountedHistory(b, t) <= AlphaDen * Scale(inp.T) * HistoricalArrivals(b, t)
  /\ (/\ call \in {"solver_v2", "solver_v2_correction"}
      /\ pc \in {"returned", "SolverFail"}
      /\ \E b \in Bs(inp) : UnmetBeforeLeadTime(b)) => pc = "SolverFail"

\* scenario S4: lead time 2 on a 3-day horizon, the demand of day 2 met by an
\* order placed on day 0 that is in stock on neither day 0 nor day 1
C15_Witness ==
  /\ ReturnedBy("solver_v2") /\ inp.T = 3 /\ inp.X[0][0] = 2
  /\ DOMAIN inp.x_hist = {}
  /\ inp.Demand[0][2] > 0
  /\ Total(<<0, 0, 0>>) = inp.Demand[0][2]
  /\ out.I[<<0, 0>>] = 0 /\ out.I[<<0, 1>>] = 0 /\ out.I[<<0, 2>>] = 0

\* the daily loss fraction of the request, times AlphaDen
LossFraction ==
  IF call = "create_predictions_v2" THEN inp.daily_loss_fraction ELSE inp.alpha

\* C17: a request whose daily loss fraction alpha is outside [0, 1] is rejected
\* as invalid input by every planning entry point (create_predictions_v2 with
\* generate_predictions, the baseline solve, the advanced solves) and no model is
\* solved for it.
C17_RejectsLossFractionOutsideUnitInterval ==
  (pc # "ready" /\ (LossFraction < 0 \/ LossFraction > AlphaDen))
    => pc \in {"ValidationError", "ValueError", "AssertionError"}

(***************************************************************************)
(* Properties of the services, on ServiceSpec.                             *)
(***************************************************************************)
\* run_optimization has ended
RanOptimization == call = "run_optimization" /\ pc # "ready"

\* the rows of table rows that reference request id
OrdersOf(d, id) == {k \in DOMAIN d.orders : d.orders[k].optimization_request_id = id}
SnapshotsOf(d, id) == {sn \in d.snapshots : sn.optimization_request_id = id}

\* request id of d has one snapshot for each day of its horizon
HasItsSnapshots(d, id) ==
  /\ {sn.day : sn \in SnapshotsOf(d, id)} = 0..(d.requests[id].planning_horizon_days - 1)
  /\ Cardinality(SnapshotsOf(d, id)) = d.requests[id].planning_horizon_days

C12_OrdersAndSnapshotsIffOptimal ==
  [][(pc = "ready" /\ call = "run_optimization" /\ pc' # "ready") =>
       LET orders == {session'.orders[k] :
                        k \in DOMAIN session'.orders \ DOMAIN session.orders}
           snapshots == session'.snapshots \ session.snapshots
       IN  /\ out'.solve = "SolverFail" => orders = {} /\ snapshots = {}
           /\ out'.solve = "returned" =>
                /\ {sn.day : sn \in snapshots} = 0..(inp.planning_horizon_days - 1)
                /\ Cardinality(snapshots) = inp.planning_horizon_days
                /\ {o.order_day : o \in orders} =
                     {t \in DOMAIN out'.result.x : out'.result.x[t] > 0}
                /\ Cardinality(orders) =
                     Cardinality({t \in DOMAIN out'.result.x : out'.result.x[t] > 0})]_vars

\* the closed set of statuses, as the code would spell them
TypedStatuses ==
  {"Optimal", "OPTIMAL", "Infeasible", "INFEASIBLE", "TimedOut", "TIMED_OUT",
   "SolverError", "SOLVER_ERROR"}

\* C13: the status run_optimization records on the OptimizationRequest is one of
\* Optimal, Infeasible, TimedOut, SolverError, and Infeasible when the model has
\* no solution
C13_TypedStatus ==
  (RanOptimization /\ out.solve \in {"returned", "SolverFail"}) =>
    /\ out.request.solver_status \in TypedStatuses
    /\ out.solve = "SolverFail" =>
         out.request.solver_status \in {"Infeasible", "INFEASIBLE"}

\* a daily array of the call's input has not T entries
ArrayLengthsWrong ==
  CASE call = "create_optimization" ->
         \/ ListLen(inp.purchase_costs_daily) # inp.planning_horizon_days
         \/ ListLen(inp.num_workers_daily) # inp.planning_horizon_days
         \/ ListLen(inp.num_conferences_daily) # inp.planning_horizon_days
    [] call = "create_predictions_v2" ->
         \/ ListLen(inp.purchase_costs_pln_per_kg_daily) # inp.planning_horizon_days
         \/ ListLen(inp.num_workers_daily) # inp.planning_horizon_days
         \/ ListLen(inp.num_conferences_daily) # inp.planning_horizon_days
    [] call = "solver" -> ListLen(inp.P) # inp.T \/ ListLen(inp.D) # inp.T
    [] call = "run_optimization" ->
         /\ inp.office_id \in DOMAIN session.offices
         /\ LET in == SolverInputOf(inp, session.offices[inp.office_id])
            IN  ListLen(in.P) # in.T \/ ListLen(in.D) # in.T
    [] OTHER -> FALSE

AlphaInUnitInterval == inp.alpha >= 0 /\ inp.alpha <= AlphaDen

\* what is left of I0 after the night's loss and day 0's demand, times Scale(T)
LeftOfInitial == Keep(inp.alpha, Scale(inp.T) * inp.I0) - Scale(inp.T) * inp.D[0]

\* C21 as stated: when I0 >= V_max, with alpha in [0, 1] and any day-0 demand, the
\* returned plan places no order on day 0: x[0] = 0, and y[0] = 0 (where a
\* delivery costs something, so that the optimum decides y[0])
C21_NoOrderOnDayZeroWhenFull ==
  (ReturnedBy("solver") /\ AlphaInUnitInterval /\ inp.I0 >= inp.V_max) =>
    /\ out.x[0] = 0
    /\ inp.C > 0 => out.y[0] = 0

\* C21 amended: when what is left of I0 after loss and day-0 demand is V_max,
\* no feasible plan has x[0] > 0, and the returned plan has x[0] = 0, and
\* y[0] = 0 when a delivery costs something
C21_NoOrderOnDayZeroWhenStillFull ==
  (ReturnedBy("solver") /\ LeftOfInitial >= Scale(inp.T) * inp.V_max) =>
    /\ \A p \in BaselinePlans(inp, inp.T) : p.x[0] = 0
    /\ out.x[0] = 0
    /\ inp.C > 0 => out.y[0] = 0

C21_Witness ==
  /\ ReturnedBy("solver")
  /\ AlphaInUnitInterval
  /\ inp.I0 >= inp.V_max
  /\ LeftOfInitial = Scale(inp.T) * inp.V_max
  /\ inp.D[0] > 0
  /\ inp.T > 1
  /\ out.x[0] = 0

(***************************************************************************)
(* Properties of the rows run_optimization projects from a plan, on        *)
(* ServiceSpec.                                                            *)
(***************************************************************************)
\* a step of run_optimization whose solve returned a plan
ProjectsPlan ==
  /\ pc = "ready"
  /\ call = "run_optimization"
  /\ pc' # "ready"
  /\ out'.solve = "returned"

\* the inventory the office holds before day t of the plan solve returned, times
\* Scale(T)
LevelBefore(t) ==
  IF t = 0 THEN Scale(inp.planning_horizon_days) * inp.initial_inventory
  ELSE out'.result.I[t - 1]

C23_OrdersProjectedFromPlan ==
  [][ProjectsPlan =>
       LET added == DOMAIN session'.orders \ DOMAIN session.orders
           order(k) == session'.orders[k]
       IN  /\ \A k \in added :
                /\ order(k).quantity_kg > 0
                /\ order(k).transport_cost = inp.transport_cost
                /\ order(k).total_cost =
                     order(k).quantity_kg * order(k).unit_price + order(k).transport_cost
                /\ order(k).delivery_day = order(k).order_day
           /\ \A t \in DOMAIN out'.result.x :
                out'.result.x[t] > 0 =>
                  Cardinality({k \in added : order(k).order_day = t}) = 1
           /\ \A j, k \in added : j < k => order(j).order_day < order(k).order_day]_vars

(***************************************************************************)
(* run_optimization in time.  The solver call m.solve() is the one step    *)
(* that takes time: it is a blocking call made with no time limit set on   *)
(* the model and no deadline passed in, so a run of any length is a run    *)
(* the engine can make.  Time is counted in ticks, in out.elapsed.         *)
(***************************************************************************)
\* the longest solve followed, in ticks
MaxSolveTime == 4

\* the time budget of a plan request, in ticks
TimeLimit == 2

TimedArguments ==
  { a \in RunArguments :
      /\ a.office_id = 1
      /\ ListLen(a.purchase_costs_daily) = a.planning_horizon_days
      /\ ListLen(a.num_conferences_daily) = a.planning_horizon_days }

TimedInit ==
  /\ db \in Databases
  /\ session = db
  /\ call = "run_optimization"
  /\ inp \in TimedArguments
  /\ pc = "ready"
  /\ out = NoOutput

\* run_optimization up to the call of solve
StartSolve ==
  /\ pc = "ready"
  /\ pc' = "solving"
  /\ out' = [elapsed |-> 0]
  /\ UNCHANGED <<call, inp, db, session>>

\* m.solve() is still running a tick later
SolverRuns ==
  /\ pc = "solving"
  /\ out.elapsed < MaxSolveTime
  /\ out' = [out EXCEPT !.elapsed = @ + 1]
  /\ UNCHANGED <<call, inp, pc, db, session>>

\* m.solve() ends, and run_optimization with it
SolveEnds ==
  /\ pc = "solving"
  /\ \E r \in RunOptimizationOutcomes(inp, session, db) :
       /\ pc' = r.pc
       /\ out' = [elapsed |-> out.elapsed] @@ r.out
       /\ session' = r.session
       /\ db' = r.db
  /\ UNCHANGED <<call, inp>>

TimedNext == StartSolve \/ SolverRuns \/ SolveEnds

TimedSpec == TimedInit /\ [][TimedNext]_vars

\* C24: every plan request ends within its time budget.  The solve does not run
\* past the limit: when the limit is reached while the solver is running, the
\* next thing that happens is that run_optimization returns TimedOut, with no
\* order and no snapshot written
C24_EndsWithinTimeBudget ==
  [][(pc = "solving" /\ out.elapsed >= TimeLimit) =>
       /\ pc' = "TimedOut"
       /\ session'.orders = session.orders
       /\ session'.snapshots = session.snapshots]_vars

(***************************************************************************)
(* Properties of the solves as functions of their input, on Spec.          *)
(***************************************************************************)
\* what a second call of the same solve on the same input can end with
SecondRun ==
  CASE call = "solver" -> Solve(inp)
    [] call = "solver_v2" -> Results("v2", inp)
    [] OTHER -> {}

C26_FailedRequestSaved ==
  [][(RanOptimization /\ out.solve = "SolverFail" /\ pc' = "ready") =>
       \E id \in DOMAIN session'.requests :
         /\ session'.requests[id].office_id = out.request.office_id
         /\ session'.requests[id].solver_status = out.request.solver_status]_vars

\* C27: the big-M of the legacy model (M = V_max) excludes no plan that satisfies
\* balance, non-negativity and capacity.  On every input the legacy solve finds
\* a solution exactly when solver.solve does, and with the same optimal cost
C27_LegacyBigMExcludesNothing ==
  (call = "model" /\ pc \in {"returned", "returned None"}) =>
    \A r \in Solve(inp) :
      /\ (r.pc = "returned") = (pc = "returned")
      /\ (r.pc = "returned" /\ pc = "returned") =>
           r.out.objective_value = out.total_cost

Raised(k, l) == IF l = 0 THEN out.r_plus_0[k] ELSE out.r_plus[<<k[1], k[2], k[3], l>>]
Lowered(k, l) == IF l = 0 THEN out.r_minus_0[k] ELSE out.r_minus[<<k[1], k[2], k[3], l>>]

\* the final and the prior quantity of a bucket
FinalBucket(k, l) == IF l = 0 THEN out.x_0[k] ELSE out.x[<<k[1], k[2], k[3], l>>]
PriorBucket(k, l) ==
  IF l = 0 THEN Get(inp.x_kor_0, k) ELSE Get(inp.x_kor, <<k[1], k[2], k[3], l>>)

\* C29: in every optimal solution of the correction solve, for every (d,b,t)
\* with K[d][b][t] > 0 and every bucket 0..L, the bucket is not raised and
\* lowered at once, so r_plus + r_minus is the absolute difference between its
\* final and its prior quantity
C29_NoSimultaneousIncreaseAndDecrease ==
  ReturnedBy("solver_v2_correction") =>
    \A k \in Orders :
      inp.K[k[1]][k[2]][k[3]] > 0 =>
        \A l \in {0} \cup Ls(inp) :
          /\ Raised(k, l) = 0 \/ Lowered(k, l) = 0
          /\ Raised(k, l) + Lowered(k, l) =
               Max({FinalBucket(k, l) - PriorBucket(k, l),
                    PriorBucket(k, l) - FinalBucket(k, l)})

C29_Witness ==
  /\ ReturnedBy("solver_v2_correction")
  /\ \E k \in Orders :
       /\ inp.K[k[1]][k[2]][k[3]] > 0
       /\ inp.R_max[k[1]][k[2]][k[3]] >= 2
       /\ \E l \in {0} \cup Ls(inp) : Raised(k, l) > 0
  /\ \E k \in Orders :
       /\ inp.K[k[1]][k[2]][k[3]] > 0
       /\ inp.R_max[k[1]][k[2]][k[3]] >= 2
       /\ \E l \in {0} \cup Ls(inp) : Lowered(k, l) > 0

\* the last day on which the returned baseline plan orders
LastOrderDay == Max({t \in DOMAIN out.x : out.x[t] > 0})

\* what is left of v after n nights of loss
RECURSIVE KeptAfter(_, _, _)
KeptAfter(a, v, n) == IF n = 0 THEN v ELSE KeptAfter(a, Keep(a, v), n - 1)

\* alpha in [0,1], non-negative demand and strictly positive prices, and the
\* returned baseline plan places at least one order
OrdersAtPositivePrices ==
  /\ ReturnedBy("solver")
  /\ AlphaInUnitInterval
  /\ \A t \in DOMAIN inp.D : inp.D[t] >= 0 /\ inp.P[t] > 0
  /\ \E t \in DOMAIN out.x : out.x[t] > 0

====
